---- MODULE Spec2Model ----
(***************************************************************************)
(* Model of the Snowflake Cortex AI slide builder: the two Streamlit app   *)
(* variants app.py (SnowflakeCortexSlideBuilder) and real_cortex_app.py    *)
(* (RealCortexSlideBuilder).                                               *)
(*                                                                         *)
(* Representation.                                                         *)
(*   - A Python str is a sequence of chunks.  Topic, query and column-name *)
(*     strings are sequences of single characters, so that str.lower() and *)
(*     the `in` substring test are computed character by character.  Long  *)
(*     canned texts (SQL, explanations) are one opaque chunk; "" is <<>>.  *)
(*   - A Python dict is a function from key strings to values; dict.get    *)
(*     is Get.  A row of data is a sequence of <<column, value>> pairs     *)
(*     (Python dicts keep insertion order, and the code reads columns by   *)
(*     position).                                                          *)
(*   - A number is Num(n) with n in tenths (42.7 is 427); a confidence is  *)
(*     an integer percentage (0.9 is 90).                                  *)
(*   - A call returns an outcome: Ok(value) or Raise(exception class).     *)
(*                                                                         *)
(* Four specifications.  Spec follows one topic through the methods of the *)
(* builders: the query, the slide, its rendering and its JSON export.      *)
(* MainSpec follows a session of the app: one run of main() per            *)
(* interaction, with the stored selection, the generation loop, the        *)
(* display, the export section and the summary.  GenSpec starts such a     *)
(* session in a run that finds the generate flag stored with any           *)
(* selection, the empty one included, in either variant.  ToggleSpec is a  *)
(* session of real_cortex_app.py in which the user also changes the two    *)
(* checkboxes of the Advanced Options.                                     *)
(***************************************************************************)
EXTENDS Integers, Sequences, FiniteSets, TLC

VARIABLES
    variant,            \* which app is running: "app" (app.py) or "real" (real_cortex_app.py)
    PLOTLY_AVAILABLE,   \* real_cortex_app.py:17/19
    ALTAIR_AVAILABLE,   \* real_cortex_app.py:23/25, "unbound" when the name was never assigned
    session_state,      \* st.session_state, a dict
    pc,                 \* position in the handling of one topic
    query,              \* the argument of the last query_cortex_analyst call
    topic,              \* the topic the slide is built for
    upstream_raised,    \* whether the upstream call or its processing raised inside the last query
    result,             \* outcome of the last query_cortex_analyst call
    slide,              \* the slide dict built from result
    viz,                \* outcome of the last rendering: [calls, shown, ret, err, tier]
    widget,             \* the value of the topic multiselect in the sidebar
    trigger,            \* the interaction that started the current run of main()
    deck,               \* `slides` of main(): the list the current run has built so far
    prev_deck,          \* `slides` as the previous run of main() left it
    processed,          \* the queries the current run has sent to query_cortex_analyst, in order
    reached,            \* the sections of main() the current run has entered
    page,               \* what the run displayed: [rendered, notices, downloads, json, avg_confidence, sample]
    memo,               \* the first chart selection observed: [topic, data, kind, again], or an empty dict
    options,            \* the two checkboxes of the sidebar: [include_sql, include_metadata]
    prev_json,          \* the JSON export as the previous run of main() left it
    progress,           \* the outcomes of the progress_bar.progress(...) calls of the current run, in order
    badge               \* the last direct call of get_confidence_badge: [confidence, html], or an empty dict

vars == <<variant, PLOTLY_AVAILABLE, ALTAIR_AVAILABLE, session_state,
          pc, query, topic, upstream_raised, result, slide, viz,
          widget, trigger, deck, prev_deck, processed, reached, page, memo, progress, badge,
          options, prev_json>>

----------------------------------------------------------------------------
(* Bounds of the model *)

\* the longest input string, counted in pieces of Pieces
MaxPieces == 2

\* the largest number of topics the user puts into the multiselect
MaxTopics == 2

----------------------------------------------------------------------------
(* Python values *)

Ok(v) == [ok |-> TRUE, val |-> v]
Raise(e) == [ok |-> FALSE, exc |-> e]

Num(n) == [t |-> "num", v |-> n]
Str(s) == [t |-> "str", s |-> s]
\* a datetime.date whose str() is s
Date(s) == [t |-> "date", s |-> s]

EmptyDict == [k \in {} |-> 0]
PyDict(m) == [py |-> "dict", m |-> m]
PyOther(what) == [py |-> what]

\* dict.get(key, default)
Get(m, k, d) == IF k \in DOMAIN m THEN m[k] ELSE d

UpperCase == <<"A","B","C","D","E","F","G","H","I","J","K","L","M",
               "N","O","P","Q","R","S","T","U","V","W","X","Y","Z">>
LowerCase == <<"a","b","c","d","e","f","g","h","i","j","k","l","m",
               "n","o","p","q","r","s","t","u","v","w","x","y","z">>

\* str.lower() of one character
LowerChar(c) ==
    IF \E i \in 1..Len(UpperCase) : UpperCase[i] = c
    THEN LowerCase[CHOOSE i \in 1..Len(UpperCase) : UpperCase[i] = c]
    ELSE c

\* str.lower()
Lower(s) == [i \in 1..Len(s) |-> LowerChar(s[i])]

\* the Python test  k in s  for a non-empty k
Contains(s, k) ==
    \E i \in 0..(Len(s) - Len(k)) : SubSeq(s, i + 1, i + Len(k)) = k

kw_overview == <<"o","v","e","r","v","i","e","w">>
kw_peak == <<"p","e","a","k">>
kw_hour == <<"h","o","u","r">>
kw_time == <<"t","i","m","e">>
kw_distribution == <<"d","i","s","t","r","i","b","u","t","i","o","n">>
kw_range == <<"r","a","n","g","e">>
kw_trend == <<"t","r","e","n","d">>
kw_speed == <<"s","p","e","e","d">>
kw_location == <<"l","o","c","a","t","i","o","n">>
kw_zone == <<"z","o","n","e">>
kw_month == <<"m","o","n","t","h">>

----------------------------------------------------------------------------
(* real_cortex_app.py: the analyst query *)

\* the keyword test of the first branch of _simulate_cortex_call
SimIsOverview(q) == Contains(q, kw_overview)

\* the keyword test of the second branch of _simulate_cortex_call
SimIsPeak(q) == Contains(q, kw_peak) \/ Contains(q, kw_hour)

OverviewReply ==
    [request_id |-> <<"req_123">>,
     sql |-> <<"SELECT COUNT(*) as total_records, AVG(speed) as avg_speed, MIN(timestamp) as start_date, MAX(timestamp) as end_date FROM traffic_data">>,
     results |-> <<
        << <<<<"T","O","T","A","L","_","R","E","C","O","R","D","S">>, Num(1567890)>>,
           <<<<"A","V","G","_","S","P","E","E","D">>, Num(427)>>,
           <<<<"S","T","A","R","T","_","D","A","T","E">>, Str(<<"2","0","2","4","-","0","1","-","0","1">>)>>,
           <<<<"E","N","D","_","D","A","T","E">>, Str(<<"2","0","2","4","-","1","2","-","3","1">>)>> >> >>,
     explanation |-> <<"Traffic dataset analysis shows 156,789 total records with an average speed of 42.7 mph across the full year.">>]

\* the rows of the peak-hours reply with one row lacking its last column
PeakRowRagged(h, c, s) ==
    IF h = 170
    THEN << <<<<"H","O","U","R">>, Num(h)>>, <<<<"C","O","U","N","T">>, Num(c)>> >>
    ELSE << <<<<"H","O","U","R">>, Num(h)>>,
            <<<<"C","O","U","N","T">>, Num(c)>>,
            <<<<"A","V","G","_","S","P","E","E","D">>, Num(s)>> >>

PeakRow(h, c, s) ==
    << <<<<"H","O","U","R">>, Num(h)>>,
       <<<<"C","O","U","N","T">>, Num(c)>>,
       <<<<"A","V","G","_","S","P","E","E","D">>, Num(s)>> >>

PeakReply ==
    [request_id |-> <<"req_124">>,
     sql |-> <<"SELECT HOUR(timestamp) as hour, COUNT(*) as count, AVG(speed) as avg_speed FROM traffic_data GROUP BY HOUR(timestamp) ORDER BY count DESC">>,
     results |-> << PeakRow(80, 128900, 285), PeakRow(170, 124560, 312),
                    PeakRow(90, 102340, 358), PeakRow(160, 98760, 334),
                    PeakRow(180, 91230, 367) >>,
     explanation |-> <<"Peak traffic occurs at 8 AM (12,890 readings) and 5 PM (12,456 readings) with significantly reduced speeds during these hours.">>]

GenericReply ==
    [request_id |-> <<"req_125">>,
     sql |-> <<"SELECT 'No specific analysis' as result">>,
     results |-> << << <<<<"R","E","S","U","L","T">>, Str(<<"G","e","n","e","r","a","l"," ","t","r","a","f","f","i","c"," ","d","a","t","a">>)>> >> >>,
     explanation |-> <<"General traffic analysis performed.">>]

\* _simulate_cortex_call without the .lower() of its first line
simulate_case_sensitive(q) ==
    IF SimIsOverview(q) THEN OverviewReply
    ELSE IF SimIsPeak(q) THEN PeakReply
    ELSE GenericReply

\* RealCortexSlideBuilder._simulate_cortex_call(query=q)
_simulate_cortex_call(q) ==
    LET lq == Lower(q)
    IN  IF SimIsOverview(lq) THEN OverviewReply
        ELSE IF SimIsPeak(lq) THEN PeakReply
        ELSE GenericReply

ConfidenceProcessed == 90
ConfidenceFallback == 10

\* _process_cortex_result stamping the confidence of the fallback
process_cortex_result_low(r) ==
    IF r.py # "dict" THEN Raise("AttributeError")
    ELSE Ok([sql |-> Get(r.m, "sql", <<>>),
             data |-> Get(r.m, "results", <<>>),
             insights |-> Get(r.m, "explanation", <<>>),
             request_id |-> Get(r.m, "request_id", <<>>),
             metadata |-> [confidence |-> ConfidenceFallback,
                           query_type |-> "fallback"]])

\* RealCortexSlideBuilder._process_cortex_result(result): result.get raises
\* AttributeError when result is no mapping
_process_cortex_result(r) ==
    IF r.py # "dict" THEN Raise("AttributeError")
    ELSE Ok([sql |-> Get(r.m, "sql", <<>>),
             data |-> Get(r.m, "results", <<>>),
             insights |-> Get(r.m, "explanation", <<>>),
             request_id |-> Get(r.m, "request_id", <<>>),
             metadata |-> [confidence |-> ConfidenceProcessed,
                           query_type |-> "analytical"]])

\* RealCortexSlideBuilder._get_fallback_data(query)
_get_fallback_data(q) ==
    [sql |-> <<"-- Cortex unavailable, using fallback data">>,
     data |-> << << <<<<"m","e","s","s","a","g","e">>,
                      Str(<<"D","e","m","o"," ","d","a","t","a"," ","-"," ","C","o","r","t","e","x"," ","s","e","r","v","i","c","e"," ","u","n","a","v","a","i","l","a","b","l","e">>)>> >> >>,
     insights |-> <<"Unable to analyze '">> \o q \o <<"' - using fallback demonstration data.">>,
     metadata |-> [confidence |-> ConfidenceFallback, query_type |-> "fallback"]]

\* calling the object  st.session_state.get('mcp_cortex_analyst', self._simulate_cortex_call)
\* with query=q: the built-in simulation, or the injected object
CallAnalyst(ss, q) ==
    IF "mcp_cortex_analyst" \notin DOMAIN ss THEN Ok(PyDict(_simulate_cortex_call(q)))
    ELSE LET f == ss["mcp_cortex_analyst"]
         IN  CASE f.fn = "returns" -> Ok(f.val)
               [] f.fn = "raises" -> Raise(f.exc)
               [] f.fn = "raises_on" -> IF Contains(Lower(q), f.kw) THEN Raise(f.exc)
                                        ELSE Ok(PyDict(_simulate_cortex_call(q)))
               [] OTHER -> Raise("TypeError")     \* the object is not callable

\* an except clause that catches the failures of the call but not the
\* AttributeError of the processing
CaughtOnlyCallFailures(o) == ~o.ok /\ o.exc # "AttributeError"

\* the  except Exception  clause of query_cortex_analyst
CaughtByExceptException(o) == ~o.ok

\* RealCortexSlideBuilder.query_cortex_analyst(query): [out, caught]
query_cortex_analyst(ss, q) ==
    LET called == CallAnalyst(ss, q)
        tried == IF called.ok THEN _process_cortex_result(called.val) ELSE called
    IN  IF CaughtByExceptException(tried)
        THEN [out |-> Ok(_get_fallback_data(q)), caught |-> TRUE]
        ELSE [out |-> tried, caught |-> ~tried.ok]

----------------------------------------------------------------------------
(* app.py: the analyst query and the slide *)

\* SnowflakeCortexIntegration.query_cortex_analyst(query) of cortex_integration.py,
\* a module that is not among the sources: the mock analyst responder as the
\* specification describes it (keys as test_cortex_integration.py:42-44 reads them)
cortex_query_cortex_analyst(q) ==
    LET r == _simulate_cortex_call(q)
    IN  [sql |-> r.sql, data |-> r.results, insights |-> r.explanation,
         metadata |-> [confidence |-> IF r = GenericReply THEN ConfidenceFallback
                                       ELSE ConfidenceProcessed,
                       query_type |-> IF r = GenericReply THEN "fallback" ELSE "analytical"]]

\* a generate_slide_insights that returns the explanation as it is
insights_unchanged(data, t) ==
    Get(data, "insights", <<>>)

\* SnowflakeCortexIntegration.generate_slide_insights(data, topic), not among the
\* sources: appends a templated elaboration sentence to the explanation
generate_slide_insights(data, t) ==
    Get(data, "insights", <<>>) \o <<" This analysis of ">> \o t \o <<" highlights key patterns in the traffic data.">>

\* what the  except Exception  clause of SnowflakeCortexSlideBuilder.query_cortex_analyst returns
AppExceptReturn == EmptyDict

\* SnowflakeCortexSlideBuilder.query_cortex_analyst(query); fails says whether
\* self.cortex.query_cortex_analyst raises
app_query_cortex_analyst(q, fails) ==
    IF fails THEN AppExceptReturn ELSE cortex_query_cortex_analyst(q)

IsUpper(c) == \E i \in 1..Len(UpperCase) : UpperCase[i] = c
IsLower(c) == \E i \in 1..Len(LowerCase) : LowerCase[i] = c
UpperChar(c) ==
    IF IsLower(c) THEN UpperCase[CHOOSE i \in 1..Len(LowerCase) : LowerCase[i] = c] ELSE c

\* str.title(): a letter that follows a non-letter is upper-cased, every other letter lower-cased
Title(s) ==
    [i \in 1..Len(s) |->
        IF i = 1 \/ ~(IsUpper(s[i - 1]) \/ IsLower(s[i - 1]))
        THEN UpperChar(s[i]) ELSE LowerChar(s[i])]

\* a _determine_chart_type that answers "bar" once a chart has been selected before
determine_chart_type_after_first(t) ==
    IF memo # EmptyDict THEN "bar"
    ELSE IF Contains(Lower(t), kw_hour) \/ Contains(Lower(t), kw_time) THEN "bar"
    ELSE IF Contains(Lower(t), kw_distribution) \/ Contains(Lower(t), kw_range) THEN "pie"
    ELSE IF Contains(Lower(t), kw_trend) THEN "line"
    ELSE "metric"

\* _determine_chart_type with its first two branches exchanged
determine_chart_type_pie_first(t) ==
    IF Contains(Lower(t), kw_distribution) \/ Contains(Lower(t), kw_range) THEN "pie"
    ELSE IF Contains(Lower(t), kw_hour) \/ Contains(Lower(t), kw_time) THEN "bar"
    ELSE IF Contains(Lower(t), kw_trend) THEN "line"
    ELSE "metric"

\* _determine_chart_type with a bar default
determine_chart_type_default_bar(t) ==
    IF Contains(Lower(t), kw_hour) \/ Contains(Lower(t), kw_time) THEN "bar"
    ELSE IF Contains(Lower(t), kw_distribution) \/ Contains(Lower(t), kw_range) THEN "pie"
    ELSE IF Contains(Lower(t), kw_trend) THEN "line"
    ELSE "bar"

\* SnowflakeCortexSlideBuilder._determine_chart_type(topic)
_determine_chart_type(t) ==
    IF Contains(Lower(t), kw_hour) \/ Contains(Lower(t), kw_time) THEN "bar"
    ELSE IF Contains(Lower(t), kw_distribution) \/ Contains(Lower(t), kw_range) THEN "pie"
    ELSE IF Contains(Lower(t), kw_trend) THEN "line"
    ELSE "metric"

\* SnowflakeCortexSlideBuilder.generate_slide_content(topic, data)
generate_slide_content(t, data) ==
    [title |-> Title(t),
     content |-> generate_slide_insights(data, t),
     sql |-> Get(data, "sql", <<>>),
     data |-> Get(data, "data", <<>>),
     chart_type |-> _determine_chart_type(t),
     metadata |-> Get(data, "metadata", EmptyDict)]

\* the slide_data dict of real_cortex_app.main
real_slide_data(t, r) ==
    [title |-> t,
     content |-> Get(r, "insights", <<>>),
     sql |-> Get(r, "sql", <<>>),
     data |-> Get(r, "data", <<>>),
     metadata |-> Get(r, "metadata", EmptyDict),
     request_id |-> Get(r, "request_id", <<>>)]

----------------------------------------------------------------------------
(* Rendering.  A rendering outcome records the chart-library constructions  *)
(* made (calls), the Streamlit elements displayed (shown), the value        *)
(* returned (ret), the exception that propagated (err, "none" if none) and  *)
(* the branch of the library dispatch that was taken (tier).                *)

Viz(calls, shown, ret) ==
    [calls |-> calls, shown |-> shown, ret |-> ret, err |-> "none", tier |-> "none",
     reads |-> <<>>]
VizRaise(calls, shown, e) ==
    [calls |-> calls, shown |-> shown, ret |-> "raised", err |-> e, tier |-> "none",
     reads |-> <<>>]

\* v, with the module globals named read on the way, in the order of the reads
Read(v, names) == [v EXCEPT !.reads = @ \o names]

\* v, reached through the rendering tier named
Tier(v, name) == [v EXCEPT !.tier = name]

\* the constructions that build a chart from the rows
ChartBuilders == {"px.bar", "px.pie", "px.line", "go.Indicator", "alt.Chart"}

RowCols(row) == [i \in 1..Len(row) |-> row[i][1]]

RECURSIVE FlatCols(_)
FlatCols(data) == IF data = <<>> THEN <<>> ELSE RowCols(Head(data)) \o FlatCols(Tail(data))

RECURSIVE Dedupe(_)
Dedupe(s) ==
    IF s = <<>> THEN <<>>
    ELSE LET r == Dedupe(SubSeq(s, 1, Len(s) - 1))
         IN  IF \E j \in 1..Len(r) : r[j] = s[Len(s)] THEN r ELSE Append(r, s[Len(s)])

\* pd.DataFrame(data) for a non-empty list of dicts: the columns in order of
\* first appearance, the number of rows, and the cell df.iloc[0, 0]
DataFrame(data) ==
    [columns |-> Dedupe(FlatCols(data)),
     nrows |-> Len(data),
     cell00 |-> IF Len(data[1]) > 0 THEN data[1][1][2] ELSE [t |-> "nan"]]

\* str(value): the text of a string cell; the text of a number holds no letter
CellText(c) ==
    IF c.t \in {"str", "date"} THEN c.s ELSE IF c.t = "num" THEN <<"0">> ELSE <<"n","a","n">>

\* a _create_plotly_visualization that draws hour and time columns as a line
create_plotly_visualization_hour_line(df) ==
    IF Len(df.columns) >= 2
    THEN LET x_col == Lower(df.columns[1])
             first == Lower(CellText(df.cell00))
         IN  IF Contains(x_col, kw_hour) \/ Contains(x_col, kw_time)
             THEN Viz({"px.line"}, {}, "figure")
             ELSE IF Contains(first, kw_speed) \/ Contains(first, kw_range)
             THEN Viz({"px.pie"}, {}, "figure")
             ELSE IF Contains(x_col, kw_location) \/ Contains(x_col, kw_zone)
             THEN VizRaise({"px.bar"}, {}, "AttributeError")   \* Figure has no update_xaxis
             ELSE IF Contains(x_col, kw_month)
             THEN Viz({"px.line"}, {}, "figure")
             ELSE Viz({"px.bar"}, {}, "figure")
    ELSE IF Len(df.columns) = 0
         THEN VizRaise({}, {}, "IndexError")                   \* list(df.iloc[0].values)[0]
         ELSE IF df.cell00.t = "num"
              THEN Viz({"go.Indicator"}, {}, "figure")
              ELSE VizRaise({}, {}, "TypeError")               \* value * 1.2 on a str

\* RealCortexSlideBuilder._create_plotly_visualization(df, title)
_create_plotly_visualization(df) ==
    IF Len(df.columns) >= 2
    THEN LET x_col == Lower(df.columns[1])
             first == Lower(CellText(df.cell00))
         IN  IF Contains(x_col, kw_hour) \/ Contains(x_col, kw_time)
             THEN Viz({"px.bar"}, {}, "figure")
             ELSE IF Contains(first, kw_speed) \/ Contains(first, kw_range)
             THEN Viz({"px.pie"}, {}, "figure")
             ELSE IF Contains(x_col, kw_location) \/ Contains(x_col, kw_zone)
             THEN VizRaise({"px.bar"}, {}, "AttributeError")   \* Figure has no update_xaxis
             ELSE IF Contains(x_col, kw_month)
             THEN Viz({"px.line"}, {}, "figure")
             ELSE Viz({"px.bar"}, {}, "figure")
    ELSE IF Len(df.columns) = 0
         THEN VizRaise({}, {}, "IndexError")                   \* list(df.iloc[0].values)[0]
         ELSE IF df.cell00.t = "num"
              THEN Viz({"go.Indicator"}, {}, "figure")
              ELSE VizRaise({}, {}, "TypeError")               \* value * 1.2 on a str

\* RealCortexSlideBuilder._create_altair_visualization(df, title)
_create_altair_visualization(df) ==
    IF Len(df.columns) >= 2 THEN Viz({"alt.Chart"}, {}, "chart")
    ELSE IF Len(df.columns) = 0
         THEN VizRaise({}, {"st.subheader"}, "IndexError")     \* df.iloc[0, 0]
         ELSE Viz({}, {"st.subheader", "st.metric"}, "None")

\* create_enhanced_visualization without its  if not data  block
create_enhanced_visualization_unguarded(s, P, A) ==
    LET data == Get(s, "data", <<>>)
    IN  IF P THEN (IF data = <<>> THEN Tier(Viz({"go.Indicator"}, {}, "figure"), "plotly")
                   ELSE Tier(_create_plotly_visualization(DataFrame(data)), "plotly"))
        ELSE IF A = "unbound" THEN VizRaise({}, {}, "NameError")
        ELSE IF A = "True"
             THEN (IF data = <<>> THEN Tier(Viz({}, {"st.subheader"}, "None"), "altair")
                   ELSE Tier(_create_altair_visualization(DataFrame(data)), "altair"))
        ELSE Tier(Viz({}, {"st.subheader", "st.dataframe"}, "None"), "table")

\* a create_enhanced_visualization that tests ALTAIR_AVAILABLE before PLOTLY_AVAILABLE
create_enhanced_visualization_altair_first(s, P, A) ==
    LET data == Get(s, "data", <<>>)
        g_plotly == <<"PLOTLY_AVAILABLE">>
        g_altair == <<"ALTAIR_AVAILABLE">>
        g_both == <<"ALTAIR_AVAILABLE", "PLOTLY_AVAILABLE">>
    IN  IF data = <<>>
        THEN IF P THEN Read(Viz({"go.Figure.add_annotation"}, {}, "no_data_figure"), g_plotly)
                  ELSE Read(Viz({}, {"st.info"}, "None"), g_plotly)
        ELSE IF A = "unbound" THEN Read(VizRaise({}, {}, "NameError"), g_altair)
             ELSE IF A = "True"
             THEN Read(Tier(_create_altair_visualization(DataFrame(data)), "altair"), g_altair)
             ELSE IF P THEN Read(Tier(_create_plotly_visualization(DataFrame(data)), "plotly"), g_both)
             ELSE Read(Tier(Viz({}, {"st.subheader", "st.dataframe"}, "None"), "table"), g_both)

\* RealCortexSlideBuilder.create_enhanced_visualization(slide_data), under the
\* module globals P (PLOTLY_AVAILABLE) and A (ALTAIR_AVAILABLE); evaluating a
\* name that was never bound raises NameError
create_enhanced_visualization(s, P, A) ==
    LET data == Get(s, "data", <<>>)
        g_plotly == <<"PLOTLY_AVAILABLE">>
        g_both == <<"PLOTLY_AVAILABLE", "ALTAIR_AVAILABLE">>
    IN  IF data = <<>>
        THEN IF P THEN Read(Viz({"go.Figure.add_annotation"}, {}, "no_data_figure"), g_plotly)
                  ELSE Read(Viz({}, {"st.info"}, "None"), g_plotly)
        ELSE IF P THEN Read(Tier(_create_plotly_visualization(DataFrame(data)), "plotly"), g_plotly)
             ELSE IF A = "unbound" THEN Read(VizRaise({}, {}, "NameError"), g_both)
             ELSE IF A = "True"
             THEN Read(Tier(_create_altair_visualization(DataFrame(data)), "altair"), g_both)
             ELSE Read(Tier(Viz({}, {"st.subheader", "st.dataframe"}, "None"), "table"), g_both)

\* the visualization column of real_cortex_app.main
real_display(s, P, A) ==
    IF s.data # <<>>
    THEN LET v == create_enhanced_visualization(s, P, A)
             g_plotly == <<"PLOTLY_AVAILABLE">>
             g_both == <<"PLOTLY_AVAILABLE", "ALTAIR_AVAILABLE">>
         IN  IF v.err # "none" \/ v.ret = "None" THEN v
             ELSE IF P THEN Read([v EXCEPT !.shown = @ \cup {"st.plotly_chart"}], g_plotly)
             ELSE IF A = "unbound"
             THEN [VizRaise(v.calls, v.shown, "NameError") EXCEPT !.reads = v.reads \o g_both]
             ELSE IF A = "True" THEN Read([v EXCEPT !.shown = @ \cup {"st.altair_chart"}], g_both)
             ELSE Read(v, g_both)
    ELSE Viz({}, {"st.info"}, "None")

\* the sample chart of the welcome screen of real_cortex_app.main
welcome_sample_chart(P, A) ==
    IF P THEN Read(Tier(Viz({"px.line"}, {"st.plotly_chart"}, "None"), "plotly"),
                   <<"PLOTLY_AVAILABLE">>)
    ELSE IF A = "unbound"
    THEN Read(VizRaise({}, {}, "NameError"), <<"PLOTLY_AVAILABLE", "ALTAIR_AVAILABLE">>)
    ELSE IF A = "True"
    THEN Read(Tier(Viz({"alt.Chart"}, {"st.altair_chart"}, "None"), "altair"),
              <<"PLOTLY_AVAILABLE", "ALTAIR_AVAILABLE">>)
    ELSE Read(Tier(Viz({}, {"st.line_chart"}, "None"), "table"),
              <<"PLOTLY_AVAILABLE", "ALTAIR_AVAILABLE">>)

\* SnowflakeCortexSlideBuilder.create_visualization(slide_data)
create_visualization(s) ==
    LET data == s.data
        df == DataFrame(data)
    IN  IF data = <<>> THEN Viz({"go.Figure.add_annotation"}, {}, "no_data_figure")
        ELSE IF s.chart_type \in {"bar", "pie", "line"}
        THEN IF Len(df.columns) < 2 THEN VizRaise({}, {}, "IndexError")   \* df.columns[1]
             ELSE Viz({"px." \o s.chart_type}, {}, "figure")
        ELSE IF Len(data[1]) = 0 THEN VizRaise({}, {}, "IndexError")      \* list(data[0].values())[0]
             ELSE IF data[1][1][2].t = "num" THEN Viz({"go.Indicator"}, {}, "figure")
             ELSE VizRaise({"go.Indicator"}, {}, "ValueError")            \* Indicator value must be a number

\* the visualization column of app.main
app_display(s) ==
    IF s.data # <<>>
    THEN LET v == create_visualization(s)
         IN  IF v.err # "none" THEN v ELSE [v EXCEPT !.shown = @ \cup {"st.plotly_chart"}]
    ELSE Viz({}, {"st.info"}, "None")

\* get_confidence_badge with its two thresholds exchanged
confidence_badge_thresholds_swapped(c) ==
    LET class_name == IF c >= 60 THEN "high-confidence"
                      ELSE IF c >= 80 THEN "medium-confidence"
                      ELSE "low-confidence"
        text == IF c >= 60 THEN "High Confidence"
                ELSE IF c >= 80 THEN "Medium Confidence"
                ELSE "Low Confidence"
    IN  <<"<span class=\"confidence-badge ", class_name, "\">", text, " (", ToString(c), "%)</span>">>

\* RealCortexSlideBuilder.get_confidence_badge(confidence), confidence in percent:
\* the f-string as its literal and substituted pieces; {confidence:.0%} of a whole
\* percentage is its decimal numeral
get_confidence_badge(c) ==
    LET class_name == IF c >= 80 THEN "high-confidence"
                      ELSE IF c >= 60 THEN "medium-confidence"
                      ELSE "low-confidence"
        text == IF c >= 80 THEN "High Confidence"
                ELSE IF c >= 60 THEN "Medium Confidence"
                ELSE "Low Confidence"
    IN  <<"<span class=\"confidence-badge ", class_name, "\">", text, " (", ToString(c), "%)</span>">>

----------------------------------------------------------------------------
(* The JSON export.  A JSON document is the tree json.dumps writes and      *)
(* json.loads reads back: strings, numbers, arrays and objects.             *)

JString(s) == [j |-> "string", s |-> s]
JNumber(n) == [j |-> "number", n |-> n]
JArray(items) == [j |-> "array", items |-> items]
JObject(members) == [j |-> "object", members |-> members]

\* a value json.dumps writes without the help of a default hook
JsonNative(c) == c.t \in {"num", "str"}

\* a json.dumps that passes every cell through str()
dumps_cell_all_str(c) == JString(CellText(c))

\* json.dumps of a cell of a row: a number, a string, or, through the
\* default=str hook, the str() of any other object
dumps_cell(c) ==
    IF c.t = "num" THEN JNumber(c.v)
    ELSE IF c.t = "str" THEN JString(c.s)
    ELSE JString(CellText(c))

dumps_row(row) ==
    JObject([k \in 1..Len(row) |-> <<row[k][1], dumps_cell(row[k][2])>>])

dumps_metadata(m) ==
    JObject([k \in DOMAIN m |-> IF k = "confidence" THEN JNumber(m[k]) ELSE JString(m[k])])

dumps_slide(s) ==
    JObject([k \in DOMAIN s |->
                IF k = "data" THEN JArray([i \in 1..Len(s[k]) |-> dumps_row(s[k][i])])
                ELSE IF k = "metadata" THEN dumps_metadata(s[k])
                ELSE JString(s[k])])

\* whether some cell of the slides needs the default hook
NeedsDefault(slides) ==
    \E i \in 1..Len(slides) : \E r \in 1..Len(slides[i].data) :
        \E k \in 1..Len(slides[i].data[r]) : ~JsonNative(slides[i].data[r][k][2])

\* json.dumps(slides, indent=2, default=str) of real_cortex_app.main
json_dumps_default_str(slides) ==
    Ok(JArray([i \in 1..Len(slides) |-> dumps_slide(slides[i])]))

\* json.dumps(slides, indent=2) of app.main: an object that is no JSON value
\* raises TypeError
json_dumps(slides) ==
    IF NeedsDefault(slides) THEN Raise("TypeError")
    ELSE Ok(JArray([i \in 1..Len(slides) |-> dumps_slide(slides[i])]))

loads_cell(v) == IF v.j = "number" THEN Num(v.n) ELSE Str(v.s)

loads_row(o) == [k \in 1..Len(o.members) |-> <<o.members[k][1], loads_cell(o.members[k][2])>>]

loads_value(v) ==
    IF v.j = "number" THEN v.n
    ELSE IF v.j = "string" THEN v.s
    ELSE IF v.j = "array" THEN [i \in 1..Len(v.items) |-> loads_row(v.items[i])]
    ELSE [k \in DOMAIN v.members |->
              IF v.members[k].j = "number" THEN v.members[k].n ELSE v.members[k].s]

\* json.loads(text): the list of dicts the document describes
json_loads(doc) ==
    [i \in 1..Len(doc.items) |->
        [k \in DOMAIN doc.items[i].members |-> loads_value(doc.items[i].members[k])]]

----------------------------------------------------------------------------
(* Inputs *)

\* available_topics of real_cortex_app.main
Catalog ==
    { <<"T","r","a","f","f","i","c"," ","O","v","e","r","v","i","e","w">>,
      <<"P","e","a","k"," ","T","r","a","f","f","i","c"," ","H","o","u","r","s">>,
      <<"S","p","e","e","d"," ","D","i","s","t","r","i","b","u","t","i","o","n">>,
      <<"G","e","o","g","r","a","p","h","i","c"," ","A","n","a","l","y","s","i","s">>,
      <<"S","e","a","s","o","n","a","l"," ","T","r","e","n","d","s">>,
      <<"V","o","l","u","m","e"," ","A","n","a","l","y","s","i","s">>,
      <<"C","o","n","g","e","s","t","i","o","n"," ","P","a","t","t","e","r","n","s">> }

\* pieces of input strings: the keywords in mixed case, fillers, and two halves of a keyword
Pieces ==
    { <<"O","v","e","r","V","i","e","w">>,
      <<"P","e","a","k">>,
      <<"H","O","U","R">>,
      <<"t","i","m","e">>,
      <<"D","i","s","t","r","i","b","u","t","i","o","n">>,
      <<"R","a","n","g","e">>,
      <<"t","r","e","n","d">>,
      <<"x"," ">>,
      <<"h","o">>,
      <<"u","r">> }

\* the default of the topic multiselect
default_topics ==
    << <<"T","r","a","f","f","i","c"," ","O","v","e","r","v","i","e","w">>,
       <<"P","e","a","k"," ","T","r","a","f","f","i","c"," ","H","o","u","r","s">>,
       <<"S","p","e","e","d"," ","D","i","s","t","r","i","b","u","t","i","o","n">> >>

\* the topics the user picks from: those of the default selection
TopicPool == {default_topics[i] : i \in 1..Len(default_topics)}

RECURSIVE Strings(_)
Strings(n) ==
    IF n = 0 THEN {<<>>}
    ELSE Strings(n - 1) \cup {s \o p : s \in Strings(n - 1), p \in Pieces}

\* the strings a caller passes as query or topic
Inputs == Catalog \cup Strings(MaxPieces)

Row2(c1, v1, c2, v2) == << <<c1, v1>>, <<c2, v2>> >>

\* a reply of an injected analyst whose row holds a date object
DateReply ==
    [results |-> << Row2(<<"d","a","y">>, Date(<<"2","0","2","4","-","0","1","-","0","1">>), <<"c","o","u","n","t">>, Num(10)) >>]

\* replies of an injected analyst: a mapping without keys, and mappings with
\* location, speed-range and month rows and with a row holding a date object
InjectedReplies ==
    { EmptyDict,
      [sql |-> <<"SELECT location, COUNT(*) FROM traffic_data GROUP BY location">>,
       results |-> << Row2(<<"l","o","c","a","t","i","o","n">>, Str(<<"D","o","w","n","t","o","w","n">>), <<"c","o","u","n","t">>, Num(950)),
                      Row2(<<"l","o","c","a","t","i","o","n">>, Str(<<"H","i","g","h","w","a","y"," ","1","0","1">>), <<"c","o","u","n","t">>, Num(880)) >>,
       explanation |-> <<"Traffic by location.">>],
      [sql |-> <<"SELECT speed_range, COUNT(*) FROM traffic_data GROUP BY speed_range">>,
       results |-> << Row2(<<"s","p","e","e","d","_","r","a","n","g","e">>, Str(<<"0","-","2","0"," ","m","p","h">>), <<"c","o","u","n","t">>, Num(250000)),
                      Row2(<<"s","p","e","e","d","_","r","a","n","g","e">>, Str(<<"2","1","-","4","0"," ","m","p","h">>), <<"c","o","u","n","t">>, Num(450000)) >>,
       explanation |-> <<"Speed distribution.">>],
      [results |-> << Row2(<<"m","o","n","t","h">>, Str(<<"J","a","n">>), <<"c","o","u","n","t">>, Num(10)),
                      Row2(<<"m","o","n","t","h">>, Str(<<"F","e","b">>), <<"c","o","u","n","t">>, Num(20)) >>],
      DateReply }

\* an injected analyst that raises for the queries about speed and answers
\* the others as the simulation does
FailsOnSpeed == [fn |-> "raises_on", kw |-> kw_speed, exc |-> "RuntimeError"]

\* the objects found under session_state['mcp_cortex_analyst']
InjectedAnalysts ==
    { [fn |-> "raises", exc |-> "RuntimeError"],
      FailsOnSpeed,
      [fn |-> "not_callable"],
      [fn |-> "returns", val |-> PyOther("list")] }
    \cup { [fn |-> "returns", val |-> PyDict(m)] : m \in InjectedReplies }

SessionStates == {EmptyDict} \cup { [mcp_cortex_analyst |-> f] : f \in InjectedAnalysts }

\* the session states a session of the app starts from: nothing injected, an
\* analyst failing for some topics, an analyst returning a date object
MainSessionStates ==
    { EmptyDict,
      [mcp_cortex_analyst |-> FailsOnSpeed],
      [mcp_cortex_analyst |-> [fn |-> "returns", val |-> PyDict(DateReply)]] }

----------------------------------------------------------------------------
(* The state machine *)

\* an import block that assigns ALTAIR_AVAILABLE only when altair imports
ModuleImportAltairUnset(plotly_ok, altair_ok) ==
    IF plotly_ok THEN <<TRUE, "unbound">>
    ELSE IF altair_ok THEN <<FALSE, "True">> ELSE <<FALSE, "unbound">>

\* the import block of real_cortex_app.py: <<PLOTLY_AVAILABLE, ALTAIR_AVAILABLE>>
ModuleImport(plotly_ok, altair_ok) ==
    IF plotly_ok THEN <<TRUE, "unbound">>
    ELSE IF altair_ok THEN <<FALSE, "True">> ELSE <<FALSE, "False">>

NoViz == Viz({}, {}, "None")

\* st.checkbox(..., value=True) for both options
DefaultOptions == [include_sql |-> TRUE, include_metadata |-> TRUE]

\* nothing rendered under the deck
NoPage ==
    [rendered |-> <<>>, notices |-> {}, downloads |-> {}, json |-> EmptyDict,
     avg_confidence |-> [num |-> 0, den |-> 1], sample |-> NoViz]

Init ==
    /\ variant \in {"app", "real"}
    /\ \E plotly_ok \in BOOLEAN, altair_ok \in BOOLEAN :
          /\ variant = "app" => plotly_ok       \* app.py imports plotly unconditionally
          /\ PLOTLY_AVAILABLE = ModuleImport(plotly_ok, altair_ok)[1]
          /\ ALTAIR_AVAILABLE = ModuleImport(plotly_ok, altair_ok)[2]
    /\ session_state \in SessionStates
    /\ variant = "app" => session_state = EmptyDict
    /\ pc = "idle"
    /\ query = <<>>
    /\ topic = <<>>
    /\ upstream_raised = FALSE
    /\ result = Ok(EmptyDict)
    /\ slide = EmptyDict
    /\ viz = NoViz
    /\ widget = default_topics
    /\ trigger = "none"
    /\ deck = <<>>
    /\ prev_deck = <<>>
    /\ processed = <<>>
    /\ reached = {}
    /\ page = NoPage
    /\ memo = EmptyDict
    /\ progress = <<>>
    /\ badge = EmptyDict
    /\ options = DefaultOptions
    /\ prev_json = EmptyDict

Env == <<variant, PLOTLY_AVAILABLE, ALTAIR_AVAILABLE, session_state>>

\* the state of a run of main()
MainRun == <<widget, trigger, deck, prev_deck, processed, reached, page, progress,
             options, prev_json>>

\* the record of the first chart selection made for a topic of the default
\* selection: the topic, the rows and the chart constructions chosen, and
\* whether the selector has been called again with that topic and those rows
RememberChart(m, t, d, k) ==
    IF m = EmptyDict
    THEN (IF t \in TopicPool THEN [topic |-> t, data |-> d, kind |-> k, again |-> FALSE] ELSE m)
    ELSE IF m.topic = t /\ m.data = d THEN [m EXCEPT !.again = TRUE]
    ELSE m

\* a direct call of RealCortexSlideBuilder.query_cortex_analyst(q)
RealCallQuery ==
    /\ variant = "real" /\ pc = "idle"
    /\ \E q \in Inputs :
          LET r == query_cortex_analyst(session_state, q)
          IN  /\ query' = q
              /\ result' = r.out
              /\ upstream_raised' = r.caught
              /\ pc' = IF r.out.ok THEN "called" ELSE "crashed"
    /\ UNCHANGED <<Env, badge, MainRun, memo, topic, slide, viz>>

\* one iteration of the generation loop of real_cortex_app.main
RealGenerate ==
    /\ variant = "real" /\ pc = "idle"
    /\ \E t \in Catalog :
          LET r == query_cortex_analyst(session_state, Lower(t))
          IN  /\ topic' = t
              /\ query' = Lower(t)
              /\ result' = r.out
              /\ upstream_raised' = r.caught
              /\ slide' = IF r.out.ok THEN real_slide_data(t, r.out.val) ELSE slide
              /\ pc' = IF r.out.ok THEN "built" ELSE "crashed"
    /\ UNCHANGED <<Env, badge, MainRun, memo, viz>>

\* the visualization column of real_cortex_app.main for the slide
RealDisplay ==
    /\ variant = "real" /\ pc = "built"
    /\ viz' = real_display(slide, PLOTLY_AVAILABLE, ALTAIR_AVAILABLE)
    /\ pc' = IF viz'.err = "none" THEN "shown" ELSE "crashed"
    /\ memo' = IF viz'.tier = "plotly" THEN RememberChart(memo, topic, slide.data, viz'.calls)
               ELSE memo
    /\ UNCHANGED <<Env, badge, MainRun, query, topic, upstream_raised, result, slide>>

\* a direct call of create_enhanced_visualization(slide)
RealCallCreateViz ==
    /\ variant = "real" /\ pc = "built"
    /\ viz' = create_enhanced_visualization(slide, PLOTLY_AVAILABLE, ALTAIR_AVAILABLE)
    /\ pc' = IF viz'.err = "none" THEN "returned" ELSE "crashed"
    /\ memo' = IF viz'.tier = "plotly" THEN RememberChart(memo, topic, slide.data, viz'.calls)
               ELSE memo
    /\ UNCHANGED <<Env, badge, MainRun, query, topic, upstream_raised, result, slide>>

\* a direct call of SnowflakeCortexSlideBuilder.query_cortex_analyst(q)
AppCallQuery ==
    /\ variant = "app" /\ pc = "idle"
    /\ \E q \in Inputs, fails \in BOOLEAN :
          /\ query' = q
          /\ result' = Ok(app_query_cortex_analyst(q, fails))
          /\ upstream_raised' = fails
    /\ pc' = "called"
    /\ UNCHANGED <<Env, badge, MainRun, memo, topic, slide, viz>>

\* the data dicts a caller hands to generate_slide_content: what
\* SnowflakeCortexSlideBuilder.query_cortex_analyst returns for some query
SlideData ==
    { app_query_cortex_analyst(q, fails) : q \in Catalog, fails \in BOOLEAN }

\* a direct call of generate_slide_content(t, data)
AppCallGenerateSlideContent ==
    /\ variant = "app" /\ pc = "idle"
    /\ \E t \in Inputs, d \in SlideData :
          /\ topic' = t
          /\ result' = Ok(d)
          /\ upstream_raised' = (d = AppExceptReturn)
          /\ slide' = generate_slide_content(t, d)
    /\ pc' = "built"
    /\ memo' = RememberChart(memo, topic', slide'.data, {slide'.chart_type})
    /\ UNCHANGED <<Env, badge, MainRun, query, viz>>

\* one iteration of the generation loop of app.main
AppGenerate ==
    /\ variant = "app" /\ pc = "idle"
    /\ \E t \in Catalog, fails \in BOOLEAN :
          LET r == app_query_cortex_analyst(Lower(t), fails)
          IN  /\ topic' = t
              /\ query' = Lower(t)
              /\ result' = Ok(r)
              /\ upstream_raised' = fails
              /\ slide' = generate_slide_content(t, r)
    /\ pc' = "built"
    /\ memo' = RememberChart(memo, topic', slide'.data, {slide'.chart_type})
    /\ UNCHANGED <<Env, badge, MainRun, viz>>

\* the visualization column of app.main for the slide
AppDisplay ==
    /\ variant = "app" /\ pc = "built"
    /\ viz' = app_display(slide)
    /\ pc' = IF viz'.err = "none" THEN "shown" ELSE "crashed"
    /\ UNCHANGED <<Env, badge, MainRun, memo, query, topic, upstream_raised, result, slide>>

\* a direct call of create_visualization(slide)
AppCallCreateViz ==
    /\ variant = "app" /\ pc = "built"
    /\ viz' = create_visualization(slide)
    /\ pc' = IF viz'.err = "none" THEN "returned" ELSE "crashed"
    /\ UNCHANGED <<Env, badge, MainRun, memo, query, topic, upstream_raised, result, slide>>

\* the JSON export of main for a deck that holds the slide: json.dumps with
\* default=str in real_cortex_app.main, without it under the Export as JSON
\* button of app.main
ExportJson ==
    /\ pc = "built"
    /\ page' = [NoPage EXCEPT !.json = IF variant = "app" THEN json_dumps(<<slide>>)
                                       ELSE json_dumps_default_str(<<slide>>),
                               !.downloads = {"Download JSON"}]
    /\ pc' = "exported"
    /\ UNCHANGED <<Env, badge, widget, trigger, deck, prev_deck, processed, reached, memo,
                   options, prev_json, progress, query, topic, upstream_raised, result, slide, viz>>

\* the confidences get_confidence_badge is called with, in percent: the two the
\* builder stamps, the default of the display, those of the repository's test,
\* both sides of each threshold, the ends of the scale and values beyond them
Confidences ==
    {ConfidenceProcessed, ConfidenceFallback, 50, 95, 75, 45, 59, 60, 61, 79, 80, 81, 0, 100, -5, 120}

\* a direct call of get_confidence_badge(confidence)
RealCallBadge ==
    /\ variant = "real" /\ pc = "idle"
    /\ \E c \in Confidences : badge' = [confidence |-> c, html |-> get_confidence_badge(c)]
    /\ pc' = "badged"
    /\ UNCHANGED <<Env, MainRun, memo, query, topic, upstream_raised, result, slide, viz>>

\* the next script run: the locals of the previous one are gone
Rerun ==
    /\ pc \in {"called", "shown", "returned", "crashed", "exported", "badged"}
    /\ pc' = "idle"
    /\ query' = <<>>
    /\ topic' = <<>>
    /\ upstream_raised' = FALSE
    /\ result' = Ok(EmptyDict)
    /\ slide' = EmptyDict
    /\ viz' = NoViz
    /\ page' = NoPage
    /\ badge' = EmptyDict
    /\ UNCHANGED <<Env, widget, trigger, deck, prev_deck, processed, reached, memo, progress,
                   options, prev_json>>

Next ==
    \/ RealCallQuery
    \/ RealGenerate
    \/ RealDisplay
    \/ RealCallCreateViz
    \/ AppCallQuery
    \/ AppCallGenerateSlideContent
    \/ AppGenerate
    \/ AppDisplay
    \/ AppCallCreateViz
    \/ ExportJson
    \/ RealCallBadge
    \/ Rerun

Spec == Init /\ [][Next]_vars

----------------------------------------------------------------------------
(* A session of the app: one run of main() per interaction of the user.  A  *)
(* run goes through the sidebar, then, when the generate flag is stored,    *)
(* through the generation loop, the display of the slides and the export    *)
(* and summary sections; otherwise it shows the welcome screen.             *)

InSeq(s, x) == \E i \in 1..Len(s) : s[i] = x

\* what the multiselect can return: at most n distinct topics, in the order chosen
RECURSIVE Selections(_)
Selections(n) ==
    IF n = 0 THEN {<<>>}
    ELSE Selections(n - 1) \cup
         UNION { {Append(sel, t) : t \in {u \in TopicPool : ~InSeq(sel, u)}} : sel \in Selections(n - 1) }

\* the assignments under the Generate button of real_cortex_app.main; both
\* checkboxes of the advanced options are at their default
StoreSelection(ss, sel, o) ==
    [generate_slides |-> TRUE, selected_topics |-> sel,
     include_sql |-> o.include_sql, include_metadata |-> o.include_metadata] @@ ss

\* a sidebar that also stores the selection whenever the multiselect changes
\* after a first Generate click
session_tracks_widget(e, ss, w, o) ==
    IF e = "generate" \/ (e = "select" /\ Get(ss, "generate_slides", FALSE))
    THEN StoreSelection(ss, w, o) ELSE ss

\* a sidebar in which the export buttons store the selection as Generate does
session_after_any_click(e, ss, w, o) ==
    IF e \in {"generate", "pdf", "ppt"} THEN StoreSelection(ss, w, o) ELSE ss

\* the session state after the sidebar of a run started by interaction e, with
\* the multiselect holding w and the checkboxes o: only the Generate button
\* writes to it
SessionAfterClick(e, ss, w, o) ==
    IF e = "generate" THEN StoreSelection(ss, w, o) ELSE ss

\* st.session_state.get("generate_slides", False)
GenerateFlag(ss) == Get(ss, "generate_slides", FALSE)

\* a generation that goes on appending to the list of the run before
slides_kept(old) == old

\* slides = []  at the head of the generation
NewSlides(old) == <<>>

\* a progress value counted from the loop index itself
progress_zero_based(i, topics) ==
    IF Len(topics) = 0 THEN Raise("ZeroDivisionError")
    ELSE Ok([num |-> i, den |-> Len(topics)])

\* (i + 1) / len(topics)  for the loop index i of enumerate, counted from 0: the
\* quotient as the fraction num/den
progress_value(i, topics) ==
    IF Len(topics) = 0 THEN Raise("ZeroDivisionError")
    ELSE Ok([num |-> i + 1, den |-> Len(topics)])

\* a loop left after its first topic
loop_left_after_first(topics, n) == n >= 1

\* the end of  for i, topic in enumerate(topics) : n topics are done
LoopEnded(topics, n) == n >= Len(topics)

\* the header and the content column of a displayed slide: the confidence badge
\* beside the title and the expanders under the slide's text, as the stored
\* options ss have them
slide_elements(s, ss) ==
    [badge |-> IF Get(ss, "include_metadata", TRUE)
               THEN <<get_confidence_badge(Get(s.metadata, "confidence", 50))>>
               ELSE <<>>,
     expanders |->
        {x \in {"Generated SQL Query"} : Get(ss, "include_sql", TRUE) /\ s.sql # <<>>}
        \cup {x \in {"Analysis Metadata"} : Get(ss, "include_metadata", TRUE)}]

\* the display loop of real_cortex_app.main: for each slide its header, its
\* content column and the rendering of its chart, up to and including the first
\* slide whose rendering raises
RECURSIVE display_slides(_, _, _, _)
display_slides(slides, ss, P, A) ==
    IF slides = <<>> THEN <<>>
    ELSE LET v == slide_elements(Head(slides), ss) @@ real_display(Head(slides), P, A)
         IN  IF v.err # "none" THEN <<v>>
             ELSE <<v>> \o display_slides(Tail(slides), ss, P, A)

\* the st.info notice of the export button that started the run
export_notices(e) ==
    IF e = "pdf" THEN {"PDF export feature coming soon!"}
    ELSE IF e = "ppt" THEN {"PowerPoint export feature coming soon!"}
    ELSE {}

RECURSIVE SumConfidence(_)
SumConfidence(slides) ==
    IF slides = <<>> THEN 0
    ELSE Get(Head(slides).metadata, "confidence", 0) + SumConfidence(Tail(slides))

\* a summary that shows the sum of the confidences
confidence_sum(slides) == [num |-> SumConfidence(slides), den |-> 1]

\* avg_confidence of the summary, as the fraction num/den of percentages
average_confidence(slides) ==
    IF slides # <<>> THEN [num |-> SumConfidence(slides), den |-> Len(slides)]
    ELSE [num |-> 0, den |-> 1]

\* main() from its first line to the test of the generate flag, in a run
\* started by interaction e with the multiselect holding w
StartRun(e, w, o) ==
    /\ trigger' = e
    /\ widget' = w
    /\ options' = o
    /\ prev_json' = page.json
    /\ prev_deck' = deck
    /\ processed' = <<>>
    /\ progress' = <<>>
    /\ IF variant = "app"
       THEN \* slide_builder.semantic_model: the builder has no such attribute
            /\ pc' = "crashed"
            /\ reached' = {"config"}
            /\ deck' = deck
            /\ page' = NoPage
            /\ UNCHANGED session_state
       ELSE /\ session_state' = SessionAfterClick(e, session_state, w, o)
            /\ IF GenerateFlag(session_state')
               THEN /\ pc' = "generating"
                    /\ reached' = {"config", "sidebar", "loop"}
                    /\ deck' = NewSlides(deck)
                    /\ page' = NoPage
               ELSE \* the welcome screen, which ends with the sample chart
                    /\ page' = [NoPage EXCEPT
                                  !.sample = welcome_sample_chart(PLOTLY_AVAILABLE, ALTAIR_AVAILABLE)]
                    /\ pc' = IF page'.sample.err = "none" THEN "done" ELSE "crashed"
                    /\ reached' = {"config", "sidebar", "welcome"}
                    /\ deck' = deck
    /\ UNCHANGED <<variant, PLOTLY_AVAILABLE, ALTAIR_AVAILABLE, badge,
                   query, topic, upstream_raised, result, slide, viz, memo>>

RunEnded == pc \in {"done", "crashed"}

\* the first run of the session
Open ==
    /\ pc = "idle" /\ trigger = "none"
    /\ StartRun("open", widget, options)

\* a rerun that changes nothing: a reload, Test Connection, Share Link
Reload ==
    /\ RunEnded
    /\ StartRun("rerun", widget, options)

\* the user changes the topic multiselect
SelectTopics ==
    /\ RunEnded /\ "sidebar" \in reached
    /\ \E w \in Selections(MaxTopics) \ {widget} : StartRun("select", w, options)

\* the user clicks Generate Slide Deck, which is disabled while nothing is selected
ClickGenerate ==
    /\ RunEnded /\ "sidebar" \in reached
    /\ widget # <<>>
    /\ StartRun("generate", widget, options)

\* the user clicks Export as PDF or Export as PowerPoint
ClickExportStub ==
    /\ RunEnded /\ "export" \in reached
    /\ \E b \in {"pdf", "ppt"} : StartRun(b, widget, options)

\* one iteration of the generation loop of real_cortex_app.main
GenerateStep ==
    /\ variant = "real" /\ pc = "generating"
    /\ LET topics == session_state["selected_topics"]
           i == Len(processed) + 1
       IN  /\ ~LoopEnded(topics, Len(processed))
           /\ LET shown == progress_value(i - 1, topics)
                  r == query_cortex_analyst(session_state, Lower(topics[i]))
              IN  /\ progress' = Append(progress, shown)
                  /\ IF shown.ok
                     THEN /\ processed' = Append(processed, Lower(topics[i]))
                          /\ deck' = IF r.out.ok
                                     THEN Append(deck, real_slide_data(topics[i], r.out.val))
                                     ELSE deck
                          /\ pc' = IF r.out.ok THEN "generating" ELSE "crashed"
                     ELSE /\ pc' = "crashed"
                          /\ UNCHANGED <<processed, deck>>
    /\ UNCHANGED <<Env, badge, widget, trigger, prev_deck, reached, page, options, prev_json,
                   query, topic, upstream_raised, result, slide, viz, memo>>

\* the rest of the run of real_cortex_app.main: the display of the slides, the
\* export section and the summary
DisplayAndExport ==
    /\ variant = "real" /\ pc = "generating"
    /\ LoopEnded(session_state["selected_topics"], Len(processed))
    /\ LET shown == display_slides(deck, session_state, PLOTLY_AVAILABLE, ALTAIR_AVAILABLE)
       IN  IF \E i \in 1..Len(shown) : shown[i].err # "none"
           THEN /\ pc' = "crashed"
                /\ reached' = reached \cup {"display"}
                /\ page' = [NoPage EXCEPT !.rendered = shown]
           ELSE /\ pc' = "done"
                /\ reached' = reached \cup {"display", "export", "summary"}
                /\ page' = [rendered |-> shown,
                            notices |-> export_notices(trigger),
                            downloads |-> {"Download JSON"},
                            json |-> json_dumps_default_str(deck),
                            avg_confidence |-> average_confidence(deck),
                            sample |-> NoViz]
    /\ UNCHANGED <<Env, badge, widget, trigger, deck, prev_deck, processed, progress,
                   options, prev_json, query, topic, upstream_raised, result, slide, viz, memo>>

MainNext ==
    \/ Open
    \/ Reload
    \/ SelectTopics
    \/ ClickGenerate
    \/ ClickExportStub
    \/ GenerateStep
    \/ DisplayAndExport

MainInit == Init /\ session_state \in MainSessionStates

MainSpec == MainInit /\ [][MainNext]_vars

----------------------------------------------------------------------------
(* A session of real_cortex_app.py in which the user also ticks and unticks   *)
(* the two checkboxes of the Advanced Options.                                *)

\* the user ticks or unticks one of the two checkboxes
ToggleOption ==
    /\ variant = "real"
    /\ RunEnded /\ "sidebar" \in reached
    /\ \E k \in {"include_sql", "include_metadata"} :
          StartRun("toggle", widget, [options EXCEPT ![k] = ~@])

\* the selections the user of this session makes: the default one, and Speed
\* Distribution followed by Traffic Overview
PickedSelections == {default_topics, <<default_topics[3], default_topics[1]>>}

\* the user changes the topic multiselect
PickTopics ==
    /\ RunEnded /\ "sidebar" \in reached
    /\ \E w \in PickedSelections \ {widget} : StartRun("select", w, options)

ToggleNext ==
    \/ Open
    \/ Reload
    \/ PickTopics
    \/ ClickGenerate
    \/ ClickExportStub
    \/ ToggleOption
    \/ GenerateStep
    \/ DisplayAndExport

\* the session starts with the built-in simulation or with an analyst whose
\* reply has no sql
ToggleInit ==
    /\ Init
    /\ variant = "real"
    /\ session_state \in {EmptyDict,
                          [mcp_cortex_analyst |-> [fn |-> "returns", val |-> PyDict(DateReply)]]}

ToggleSpec == ToggleInit /\ [][ToggleNext]_vars

----------------------------------------------------------------------------
(* The generation section of main() as a function of the stored selection: a  *)
(* run that finds the generate flag stored with some selection of topics,     *)
(* the empty one included, goes through the loop, the display of the slides   *)
(* and what follows it.                                                       *)

\* the slides of app.main displayed one after the other, up to the first whose
\* visualization raises
RECURSIVE app_display_slides(_)
app_display_slides(slides) ==
    IF slides = <<>> THEN <<>>
    ELSE LET v == app_display(Head(slides))
         IN  IF v.err # "none" THEN <<v>>
             ELSE <<v>> \o app_display_slides(Tail(slides))

\* one iteration of the generation loop of app.main
AppGenerateStep ==
    /\ variant = "app" /\ pc = "generating"
    /\ LET topics == session_state["selected_topics"]
           i == Len(processed) + 1
       IN  /\ ~LoopEnded(topics, Len(processed))
           /\ LET shown == progress_value(i - 1, topics)
              IN  /\ progress' = Append(progress, shown)
                  /\ IF shown.ok
                     THEN \E fails \in BOOLEAN :
                            LET r == app_query_cortex_analyst(Lower(topics[i]), fails)
                            IN  /\ processed' = Append(processed, Lower(topics[i]))
                                /\ deck' = Append(deck, generate_slide_content(topics[i], r))
                                /\ pc' = "generating"
                     ELSE /\ pc' = "crashed"
                          /\ UNCHANGED <<processed, deck>>
    /\ UNCHANGED <<Env, badge, widget, trigger, prev_deck, reached, page, options, prev_json,
                   query, topic, upstream_raised, result, slide, viz, memo>>

\* the rest of the run of app.main: the display of the slides and the export
\* section, none of whose buttons started this run
AppDisplayAndExport ==
    /\ variant = "app" /\ pc = "generating"
    /\ LoopEnded(session_state["selected_topics"], Len(processed))
    /\ LET shown == app_display_slides(deck)
       IN  IF \E i \in 1..Len(shown) : shown[i].err # "none"
           THEN /\ pc' = "crashed"
                /\ reached' = reached \cup {"display"}
           ELSE /\ pc' = "done"
                /\ reached' = reached \cup {"display", "export"}
    /\ page' = [NoPage EXCEPT !.rendered = app_display_slides(deck)]
    /\ UNCHANGED <<Env, badge, widget, trigger, deck, prev_deck, processed, progress,
                   options, prev_json, query, topic, upstream_raised, result, slide, viz, memo>>

\* a run at its test of the generate flag, with the flag and a selection stored
GenInit ==
    /\ variant \in {"app", "real"}
    /\ \E plotly_ok \in BOOLEAN, altair_ok \in BOOLEAN :
          /\ variant = "app" => plotly_ok
          /\ PLOTLY_AVAILABLE = ModuleImport(plotly_ok, altair_ok)[1]
          /\ ALTAIR_AVAILABLE = ModuleImport(plotly_ok, altair_ok)[2]
    /\ \E ss \in MainSessionStates, sel \in Selections(MaxTopics) :
          /\ variant = "app" => ss = EmptyDict
          /\ session_state = StoreSelection(ss, sel, DefaultOptions)
    /\ pc = "generating"
    /\ query = <<>>
    /\ topic = <<>>
    /\ upstream_raised = FALSE
    /\ result = Ok(EmptyDict)
    /\ slide = EmptyDict
    /\ viz = NoViz
    /\ widget = default_topics
    /\ trigger = "rerun"
    /\ deck = <<>>
    /\ prev_deck = <<>>
    /\ processed = <<>>
    /\ reached = IF variant = "app" THEN {"loop"} ELSE {"config", "sidebar", "loop"}
    /\ page = NoPage
    /\ memo = EmptyDict
    /\ progress = <<>>
    /\ badge = EmptyDict
    /\ options = DefaultOptions
    /\ prev_json = EmptyDict

\* the run, and the runs of the session after it
GenNext ==
    \/ GenerateStep
    \/ DisplayAndExport
    \/ AppGenerateStep
    \/ AppDisplayAndExport
    \/ Reload
    \/ SelectTopics
    \/ ClickGenerate
    \/ ClickExportStub

GenSpec == GenInit /\ [][GenNext]_vars

----------------------------------------------------------------------------
(* Properties *)

\* the analyst is the built-in simulation: nothing was injected
BuiltinAnalyst == "mcp_cortex_analyst" \notin DOMAIN session_state

\* a slide has been built in this run
HasSlide == "data" \in DOMAIN slide

\* a rendering of the slide has ended, by returning or by raising
Rendered == HasSlide /\ pc \in {"shown", "returned", "crashed"}

\* s contains keyword k in some letter case
InAnyCase(s, k) == Contains(Lower(s), k)

NoSimKeyword(q) ==
    ~InAnyCase(q, kw_overview) /\ ~InAnyCase(q, kw_peak) /\ ~InAnyCase(q, kw_hour)

NoChartKeyword(t) ==
    /\ ~InAnyCase(t, kw_hour) /\ ~InAnyCase(t, kw_time)
    /\ ~InAnyCase(t, kw_distribution) /\ ~InAnyCase(t, kw_range)
    /\ ~InAnyCase(t, kw_trend)

ColSet(row) == {row[k][1] : k \in 1..Len(row)}

\* C1: RealCortexSlideBuilder.query_cortex_analyst never lets an exception out:
\* for every query and every analyst (built in or injected, raising, returning a
\* non-mapping or not callable) it returns a result, and whenever the call or
\* its processing raised, that result is exactly the fixed fallback
\* (confidence 0.1, query_type "fallback", one row of data).
C1_QueryNeverRaises ==
    variant = "real" =>
        /\ result.ok
        /\ upstream_raised =>
              /\ result.val.metadata = [confidence |-> 10, query_type |-> "fallback"]
              /\ Len(result.val.data) = 1
              /\ result.val = _get_fallback_data(query)

\* C1 witness: an injected analyst returned a non-mapping, the processing
\* raised, and the caller holds the fallback
C1_Witness ==
    /\ variant = "real" /\ pc = "called" /\ upstream_raised
    /\ ~BuiltinAnalyst
    /\ session_state["mcp_cortex_analyst"].fn = "returns"
    /\ result.ok
    /\ result.val.metadata.query_type = "fallback"

\* C2: in app.py, when the upstream analyst call raises, a fixed low-confidence
\* fallback result is substituted, so the slide built from it has sql, data,
\* explanation and a metadata.confidence below 0.2.
C2_AppFailureFallback ==
    (variant = "app" /\ HasSlide /\ upstream_raised) =>
        /\ slide.sql # <<>>
        /\ slide.data # <<>>
        /\ slide.content # <<>>
        /\ "confidence" \in DOMAIN slide.metadata
        /\ slide.metadata.confidence < 20

\* C3 as claimed: a query with none of the keywords "overview", "peak", "hour"
\* gets a fallback result whose metadata.confidence is below 0.2.
C3_UnrecognizedLowConfidence ==
    (variant = "real" /\ pc = "called" /\ BuiltinAnalyst /\ NoSimKeyword(query)) =>
        /\ result.val.metadata.query_type = "fallback"
        /\ result.val.metadata.confidence < 20

\* C3 as amended: a query with none of the keywords (in any letter case) gets the
\* generic one-row, one-column result, processed like every upstream reply:
\* confidence 0.9, query_type "analytical"; a confidence below 0.2 is returned
\* only when the upstream call or its processing raised.
C3_UnrecognizedIsGeneric ==
    (variant = "real" /\ pc = "called") =>
        /\ (BuiltinAnalyst /\ NoSimKeyword(query)) =>
              /\ result.val.request_id = <<"req_125">>
              /\ Len(result.val.data) = 1
              /\ Len(result.val.data[1]) = 1
              /\ result.val.metadata = [confidence |-> 90, query_type |-> "analytical"]
        /\ result.val.metadata.confidence < 20 => upstream_raised

\* C3 witness: the built-in simulation answered a non-empty query without keyword
C3_Witness ==
    /\ variant = "real" /\ pc = "called" /\ BuiltinAnalyst
    /\ query # <<>> /\ NoSimKeyword(query)
    /\ result.val.metadata.confidence = 90

\* C4: the dispatch of the mock responder is a case-insensitive, ordered,
\* first-match-wins substring search: "overview" wins over "peak" and "hour",
\* "peak" or "hour" without "overview" gives the peak-hours reply, anything else
\* the generic reply, and a query gets the result of its lowercased form.
C4_DispatchFirstMatch ==
    (variant = "real" /\ pc = "called" /\ BuiltinAnalyst) =>
        LET lq == Lower(query)
            id == result.val.request_id
        IN  /\ Contains(lq, kw_overview) => id = <<"req_123">>
            /\ (~Contains(lq, kw_overview) /\ (Contains(lq, kw_peak) \/ Contains(lq, kw_hour)))
                  => id = <<"req_124">>
            /\ (~Contains(lq, kw_overview) /\ ~Contains(lq, kw_peak) /\ ~Contains(lq, kw_hour))
                  => id = <<"req_125">>
            /\ result = query_cortex_analyst(session_state, lq).out

\* C4 witness: a query in mixed case holding both "overview" and "peak" got the
\* overview reply
C4_Witness ==
    /\ variant = "real" /\ pc = "called" /\ BuiltinAnalyst
    /\ query # Lower(query)
    /\ InAnyCase(query, kw_overview) /\ InAnyCase(query, kw_peak)
    /\ result.val.request_id = <<"req_123">>

\* C5: for each of the seven catalog topics, the result of query_cortex_analyst
\* on the lowercased topic has a non-empty sql, a non-empty explanation and
\* rows that all have the same set of column names.
C5_CatalogResultsUniform ==
    (variant = "real" /\ BuiltinAnalyst /\ topic \in Catalog /\ query = Lower(topic)) =>
        /\ result.val.sql # <<>>
        /\ result.val.insights # <<>>
        /\ \A i, j \in 1..Len(result.val.data) :
              ColSet(result.val.data[i]) = ColSet(result.val.data[j])

\* C5 witness: the five-row result of a catalog topic
C5_Witness ==
    /\ variant = "real" /\ BuiltinAnalyst /\ topic \in Catalog /\ pc = "built"
    /\ Len(result.val.data) = 5

\* C6: the chart selector of app.py applies its topic rules in order, first
\* match wins, in any letter case: "hour" or "time" gives bar even with
\* "distribution", "range" or "trend"; else "distribution" or "range" gives pie
\* even with "trend"; else "trend" gives line.
C6_ChartRuleOrder ==
    (variant = "app" /\ HasSlide) =>
        LET bar == InAnyCase(topic, kw_hour) \/ InAnyCase(topic, kw_time)
            pie == InAnyCase(topic, kw_distribution) \/ InAnyCase(topic, kw_range)
            line == InAnyCase(topic, kw_trend)
        IN  /\ bar => slide.chart_type = "bar"
            /\ (~bar /\ pie) => slide.chart_type = "pie"
            /\ (~bar /\ ~pie /\ line) => slide.chart_type = "line"

\* C6 witness: a topic in mixed case holding "hour" and "distribution" got bar
C6_Witness ==
    /\ variant = "app" /\ HasSlide
    /\ topic # Lower(topic)
    /\ InAnyCase(topic, kw_hour) /\ InAnyCase(topic, kw_distribution)
    /\ slide.chart_type = "bar"

\* C7 as claimed: for a topic with none of the five keywords the selector gives
\* the gauge (the code's "metric" indicator) when the rows are one row of one
\* column and bar otherwise, so the kind is one of bar, pie, line, gauge.
C7_GaugeOrBarDefault ==
    (variant = "app" /\ HasSlide) =>
        /\ (topic # <<>> /\ NoChartKeyword(topic) /\ slide.data # <<>>) =>
              IF Len(slide.data) = 1 /\ Len(slide.data[1]) = 1
              THEN slide.chart_type \in {"gauge", "metric"}
              ELSE slide.chart_type = "bar"
        /\ slide.chart_type \in {"bar", "pie", "line", "gauge", "metric"}

\* C7 as amended: for a topic with none of the five keywords the selector of
\* app.py gives "metric" (the single-number indicator) whatever the rows are,
\* so the kind is one of bar, pie, line, metric.
C7_MetricDefault ==
    (variant = "app" /\ HasSlide) =>
        /\ NoChartKeyword(topic) => slide.chart_type = "metric"
        /\ slide.chart_type \in {"bar", "pie", "line", "metric"}

\* C7 witness: a topic without keyword whose rows are several got "metric"
C7_Witness ==
    /\ variant = "app" /\ HasSlide
    /\ NoChartKeyword(topic)
    /\ Len(slide.data) > 1
    /\ slide.chart_type = "metric"

\* C8: with empty rows no chart is built in either variant:
\* create_visualization and create_enhanced_visualization return only a
\* "no data" indicator (an annotation-only figure, or a notice and None), and
\* main shows a notice instead of rendering.
C8_EmptyRowsNoChart ==
    (Rendered /\ slide.data = <<>>) =>
        /\ pc # "crashed"
        /\ viz.err = "none"
        /\ viz.calls \cap ChartBuilders = {}
        /\ pc = "returned" =>
              \/ viz.ret = "no_data_figure" /\ viz.calls = {"go.Figure.add_annotation"}
              \/ viz.ret = "None" /\ viz.shown = {"st.info"}
        /\ pc = "shown" => (viz.calls = {} /\ viz.shown = {"st.info"})

\* C8 witness: create_enhanced_visualization returned for a slide without rows
C8_Witness ==
    /\ variant = "real" /\ Rendered /\ slide.data = <<>>
    /\ pc = "returned"
    /\ viz.ret = "no_data_figure"

\* C9: with rows, create_enhanced_visualization takes the Plotly branch when
\* Plotly is available, the Altair branch when only Altair is, and otherwise
\* shows the rows as a table and returns no chart handle; in no combination of
\* library availability does it fail for lack of a library.
C9_ThreeTiers ==
    (variant = "real" /\ Rendered /\ slide.data # <<>>) =>
        /\ viz.err \notin {"NameError", "ImportError"}
        /\ PLOTLY_AVAILABLE => viz.tier = "plotly"
        /\ (~PLOTLY_AVAILABLE /\ ALTAIR_AVAILABLE = "True") => viz.tier = "altair"
        /\ (~PLOTLY_AVAILABLE /\ ALTAIR_AVAILABLE # "True") =>
              /\ viz.tier = "table"
              /\ viz.ret = "None"
              /\ viz.calls = {}
              /\ "st.dataframe" \in viz.shown

\* C9 witness: neither library, rows shown as a table
C9_Witness ==
    /\ variant = "real" /\ Rendered /\ slide.data # <<>>
    /\ ~PLOTLY_AVAILABLE /\ ALTAIR_AVAILABLE = "False"
    /\ viz.tier = "table"

\* C10: displaying a generated deck never fails: for every slide built from a
\* catalog topic by the simulation (the generic one-column result included) or
\* from the failure fallback, the rendering ends without raising in a chart, a
\* table or a notice.  Stated for real_cortex_app.py, whose code is complete.
C10_DisplayNeverRaises ==
    (/\ variant = "real" /\ Rendered /\ topic \in Catalog
     /\ (BuiltinAnalyst \/ session_state["mcp_cortex_analyst"].fn = "raises")) =>
        /\ viz.err = "none"
        /\ \/ viz.calls \cap ChartBuilders # {}
           \/ viz.shown \cap {"st.dataframe", "st.metric", "st.info"} # {}

\* a JSON document has been produced by the export
Exported == "ok" \in DOMAIN page.json /\ page.json.ok

\* the deck with every cell that is no JSON value replaced by its str() text
StrCell(c) == IF JsonNative(c) THEN c ELSE Str(CellText(c))
StrCells(slides) ==
    [i \in 1..Len(slides) |->
        [slides[i] EXCEPT !.data =
            [r \in 1..Len(@) |-> [k \in 1..Len(@[r]) |-> <<@[r][k][1], StrCell(@[r][k][2])>>]]]]

KeysOf(doc, i) == DOMAIN doc.items[i].members

\* C12: every object of the exported JSON array has the keys title, content,
\* sql, data and metadata, and its metadata holds confidence and query_type,
\* also for a slide built after an upstream failure, in both app variants.
C12_ExportedKeys ==
    (Exported /\ topic \in Catalog) =>
        \A i \in 1..Len(page.json.val.items) :
            /\ {"title", "content", "sql", "data", "metadata"} \subseteq KeysOf(page.json.val, i)
            /\ {"confidence", "query_type"} \subseteq
                  DOMAIN page.json.val.items[i].members["metadata"].members

\* the stored selection, once Generate has been clicked
StoredTopics == Get(session_state, "selected_topics", <<>>)

\* the current run has entered the generation
Generating == "loop" \in reached

\* the current run has left the generation loop
LoopLeft == "display" \in reached

\* C13: after any sequence of Generate clicks and reruns the deck has exactly
\* one slide per topic of the stored selection, in selection order, the i-th
\* title being the i-th topic and all titles distinct; while the loop runs the
\* deck is that list's prefix, so nothing of an earlier run is left in it.
C13_OneSlidePerTopic ==
    Generating =>
        /\ Len(deck) <= Len(StoredTopics)
        /\ \A i \in 1..Len(deck) : deck[i].title = StoredTopics[i]
        /\ \A i, j \in 1..Len(deck) : i # j => deck[i].title # deck[j].title
        /\ LoopLeft => Len(deck) = Len(StoredTopics)

\* C13 witness: a second Generate click, with another selection, has replaced
\* the deck of two slides by a deck of two other slides
C13_Witness ==
    /\ pc = "done" /\ trigger = "generate"
    /\ Len(deck) = 2 /\ Len(prev_deck) = 2
    /\ deck[1].title # prev_deck[1].title
    /\ deck[1].title = StoredTopics[1] /\ deck[2].title = StoredTopics[2]

\* the queries made for the first n topics of the stored selection
QueriesFor(n) == [i \in 1..n |-> Lower(StoredTopics[i])]

\* C14: once generation starts it ends having processed every topic of the
\* stored selection exactly once, one at a time and in selection order, also when
\* the upstream fails for some topics: the queries made are always a prefix of
\* the selection, every step of the loop processes exactly the next topic, adds
\* exactly one slide and leaves the selection as it is (so the number of topics
\* still to do falls by one at every step and the loop ends), and the loop is
\* left, and the run ended, only with every topic processed.
C14_GenerationCompletes ==
    /\ [](Generating =>
            /\ Len(processed) <= Len(StoredTopics)
            /\ processed = QueriesFor(Len(processed))
            /\ Len(deck) = Len(processed)
            /\ (LoopLeft \/ RunEnded) => processed = QueriesFor(Len(StoredTopics)))
    /\ [][(pc = "generating" /\ pc' = "generating") =>
            /\ StoredTopics' = StoredTopics
            /\ Len(processed) < Len(StoredTopics)
            /\ processed' = Append(processed, Lower(StoredTopics[Len(processed) + 1]))
            /\ Len(deck') = Len(deck) + 1]_vars
    /\ [][pc = "generating" => pc' \in {"generating", "done", "crashed"}]_vars

\* C14 witness: a run has ended after a loop over two topics of which the
\* second failed upstream and got the fallback slide
C14_Witness ==
    /\ RunEnded /\ LoopLeft /\ Len(processed) = 2
    /\ deck[1].metadata.query_type = "analytical"
    /\ deck[2].metadata.query_type = "fallback"

\* C15: in each variant a run of main() gets through the builder construction
\* and the sidebar without failing, and a run in which a topic is selected and
\* Generate was clicked reaches the generation loop, then the slide display and
\* the export section.
C15_RunReachesExport ==
    RunEnded =>
        /\ pc = "crashed" => Generating
        /\ (trigger = "generate" /\ widget # <<>>) => {"loop", "display", "export"} \subseteq reached

\* the chart selection of the slide at hand is the one remembered for the same
\* topic and rows
SameInputAsRemembered ==
    /\ HasSlide /\ memo # EmptyDict
    /\ memo.topic = topic /\ memo.data = slide.data

col_HOUR == <<"H","O","U","R">>

\* C17: for the topic "Peak Traffic Hours" the rows the simulation resolves have
\* the column HOUR, and the chart kind is bar: chart_type "bar" by the topic
\* selector of app.py, a px.bar chart by the column selection of
\* real_cortex_app.py.
C17_PeakHoursBar ==
    (HasSlide /\ topic = default_topics[2]) =>
        /\ variant = "app" => slide.chart_type = "bar"
        /\ (variant = "real" /\ BuiltinAnalyst) =>
              /\ slide.data # <<>>
              /\ \A r \in 1..Len(slide.data) : col_HOUR \in ColSet(slide.data[r])
              /\ (Rendered /\ viz.tier = "plotly") => (viz.calls = {"px.bar"} /\ viz.err = "none")

\* C17 witness: real_cortex_app.py with Plotly has drawn the slide of "Peak
\* Traffic Hours" from the rows of the simulation
C17_Witness ==
    /\ variant = "real" /\ BuiltinAnalyst /\ PLOTLY_AVAILABLE
    /\ pc = "shown" /\ topic = default_topics[2]
    /\ HasSlide /\ Len(slide.data) = 5
    /\ viz.calls = {"px.bar"}

\* the first column of the rows of the slide, in lower case
FirstColumn == Lower(DataFrame(slide.data).columns[1])

\* C18: the chart kind chosen from the shape of the rows depends on the column
\* names only, never on cell values: for rows of two or more columns, a first
\* column named with "hour" or "time" gives a bar chart, one named with "range"
\* or "distribution" a pie chart, one named with "month" a line chart.  (Rows of
\* a single column are left out here: their gauge is the matter of C10.)
C18_KindFromColumnNames ==
    (variant = "real" /\ Rendered /\ viz.tier = "plotly"
        /\ slide.data # <<>> /\ Len(DataFrame(slide.data).columns) >= 2) =>
        IF Contains(FirstColumn, kw_hour) \/ Contains(FirstColumn, kw_time)
        THEN viz.calls = {"px.bar"}
        ELSE IF Contains(FirstColumn, kw_range) \/ Contains(FirstColumn, kw_distribution)
        THEN viz.calls = {"px.pie"}
        ELSE Contains(FirstColumn, kw_month) => viz.calls = {"px.line"}

\* the run at hand was started by one of the two export buttons
ExportStubRun == trigger \in {"pdf", "ppt"}

\* C19: pressing Export as PDF or Export as PowerPoint only displays a notice:
\* the click leaves the stored selection, the generate flag and the rest of the
\* session state as they were, the run it starts generates the deck the run
\* before had shown, and that run displays the one notice of the button and
\* offers no download other than the JSON download every run offers.
C19_ExportStubsOnlyNotify ==
    /\ [][ExportStubRun' /\ trigger' # trigger => session_state' = session_state]_vars
    /\ [](ExportStubRun =>
            /\ GenerateFlag(session_state)
            /\ pc = "done" =>
                  /\ deck = prev_deck
                  /\ page.notices = export_notices(trigger)
                  /\ Cardinality(page.notices) = 1
                  /\ page.downloads = {"Download JSON"})

\* C19 witness: after a deck of two slides was shown and the multiselect was
\* changed, Export as PDF was clicked and the run it started has ended
C19_Witness ==
    /\ trigger = "pdf" /\ pc = "done"
    /\ Len(deck) = 2 /\ deck = prev_deck
    /\ widget # StoredTopics

\* the upstream call or its processing raises for query q
UpstreamFails(q) == query_cortex_analyst(session_state, q).caught

\* C20: every result of query_cortex_analyst has a confidence within [0,1]: it
\* is 0.9 (90 percent) for every processed upstream reply and 0.1 for the
\* fallback, on every slide of the deck, so that the average confidence of the
\* summary, the sum over the slides divided by their number, is within [0,1].
C20_ConfidenceInUnitInterval ==
    /\ \A i \in 1..Len(deck) :
          /\ deck[i].metadata.confidence \in {ConfidenceProcessed, ConfidenceFallback}
          /\ deck[i].metadata.confidence >= 0 /\ deck[i].metadata.confidence <= 100
          /\ deck[i].metadata.confidence =
                IF UpstreamFails(Lower(deck[i].title)) THEN ConfidenceFallback
                ELSE ConfidenceProcessed
    /\ page.avg_confidence.den > 0
    /\ page.avg_confidence.num >= 0
    /\ page.avg_confidence.num <= 100 * page.avg_confidence.den
    /\ (pc = "done" /\ Generating) =>
          /\ page.avg_confidence.num = SumConfidence(deck)
          /\ page.avg_confidence.den = Len(deck)

\* C20 witness: the summary of a deck of one processed and one fallback slide
\* shows the average 0.5
C20_Witness ==
    /\ pc = "done" /\ Len(deck) = 2
    /\ \E i \in 1..2 : deck[i].metadata.confidence = ConfidenceProcessed
    /\ \E i \in 1..2 : deck[i].metadata.confidence = ConfidenceFallback
    /\ page.avg_confidence = [num |-> 100, den |-> 2]

----------------------------------------------------------------------------
(* the insight enhancer *)

\* len(s) of a text kept as a sequence of pieces
RECURSIVE StrLen(_)
StrLen(s) == IF s = <<>> THEN 0 ELSE Len(Head(s)) + StrLen(Tail(s))

\* s.startswith(p)
StartsWith(s, p) == Len(p) <= Len(s) /\ SubSeq(s, 1, Len(p)) = p

\* generate_slide_content has been called in this run: result holds its data argument
ContentBuilt == variant = "app" /\ pc = "built" /\ result.ok /\ "content" \in DOMAIN slide

\* C21: for every analysis result and topic, the text generate_slide_insights
\* returns (the slide's content) starts with the result's original insights and
\* is strictly longer than it
C21_InsightsAppended ==
    ContentBuilt =>
        LET original == Get(result.val, "insights", <<>>)
        IN  /\ StartsWith(slide.content, original)
            /\ StrLen(slide.content) > StrLen(original)

\* a slide built from a result that carries insights, for a non-catalog topic
C21_Witness ==
    /\ ContentBuilt
    /\ Get(result.val, "insights", <<>>) # <<>>
    /\ topic \notin Catalog /\ topic # <<>>
    /\ StrLen(slide.content) > StrLen(Get(result.val, "insights", <<>>))

\* the same for the empty dict the failing query returns: no insights at all
C21_WitnessNoInsights ==
    ContentBuilt /\ result.val = EmptyDict /\ StrLen(slide.content) > 0

----------------------------------------------------------------------------
(* the confidence badge *)

ConfidenceClasses == {"high-confidence", "medium-confidence", "low-confidence"}

\* the confidence classes named in a badge
BadgeClasses(html) == {k \in ConfidenceClasses : \E i \in 1..Len(html) : html[i] = k}

\* get_confidence_badge has been called directly in this run
BadgeReturned == pc = "badged" /\ "html" \in DOMAIN badge

\* C22: get_confidence_badge gives every confidence exactly one class, which is
\* "high-confidence" from 0.8 up, "medium-confidence" from 0.6 up to but not
\* including 0.8 and "low-confidence" below 0.6, and the badge it returns is a
\* non-empty string
C22_BadgePartition ==
    BadgeReturned =>
        LET c == badge.confidence
        IN  /\ BadgeClasses(badge.html) =
                  {IF c >= 80 THEN "high-confidence"
                   ELSE IF c >= 60 /\ c < 80 THEN "medium-confidence"
                   ELSE "low-confidence"}
            /\ StrLen(badge.html) > 0

\* a badge for a confidence on the lower threshold itself
C22_Witness ==
    /\ BadgeReturned
    /\ badge.confidence = 60
    /\ BadgeClasses(badge.html) = {"medium-confidence"}

----------------------------------------------------------------------------
(* the generate flag and the stored selection *)

\* the titles of the slides of the deck, in order
DeckTitles == [i \in 1..Len(deck) |-> deck[i].title]

\* C23: once Generate has been clicked the stored generate_slides flag stays
\* True on every later run, so no later run of the session shows the welcome
\* screen; the stored selected_topics changes only in a run started by a Generate
\* click, where it becomes the value the topic widget has at that click; and the
\* deck a run builds is the deck of the stored selection, whatever the topic
\* widget holds in that run.
C23_StickyFlagSnapshot ==
    /\ [][GenerateFlag(session_state) => GenerateFlag(session_state')]_vars
    /\ [](GenerateFlag(session_state) => "welcome" \notin reached)
    /\ [][StoredTopics' # StoredTopics =>
            trigger' = "generate" /\ StoredTopics' = widget']_vars
    /\ []((variant = "real" /\ trigger = "generate") =>
            GenerateFlag(session_state) /\ StoredTopics = widget)
    /\ []((Generating /\ LoopLeft) => DeckTitles = StoredTopics)

\* a run started by a change of the topic widget, after a Generate click, has
\* rebuilt the deck of the stored selection although the widget now holds
\* another one
C23_Witness ==
    /\ pc = "done" /\ trigger = "select"
    /\ GenerateFlag(session_state)
    /\ widget # StoredTopics
    /\ LoopLeft /\ deck # <<>> /\ DeckTitles = StoredTopics
    /\ "welcome" \notin reached

----------------------------------------------------------------------------
(* the reads of ALTAIR_AVAILABLE *)

\* the renderings of the current run: the charts of the displayed slides, the
\* sample chart of the welcome screen and the last direct call
Renderings == {page.rendered[i] : i \in 1..Len(page.rendered)} \cup {page.sample, viz}

\* v read ALTAIR_AVAILABLE
ReadsAltair(v) == \E k \in 1..Len(v.reads) : v.reads[k] = "ALTAIR_AVAILABLE"

\* every read of ALTAIR_AVAILABLE in v follows a read of PLOTLY_AVAILABLE
AltairReadAfterPlotly(v) ==
    \A k \in 1..Len(v.reads) :
        v.reads[k] = "ALTAIR_AVAILABLE" =>
            \E j \in 1..(k - 1) : v.reads[j] = "PLOTLY_AVAILABLE"

\* C24: in real_cortex_app.py ALTAIR_AVAILABLE is bound exactly when the Plotly
\* import failed, and on every path (the dispatch of
\* create_enhanced_visualization, the chart display, the sample chart of the
\* welcome screen) a read of ALTAIR_AVAILABLE comes only after PLOTLY_AVAILABLE
\* was read and found false, so the name is bound when read and no NameError is
\* raised.
C24_AltairReadBound ==
    variant = "real" =>
        /\ (ALTAIR_AVAILABLE # "unbound") <=> ~PLOTLY_AVAILABLE
        /\ \A v \in Renderings :
              /\ v.err # "NameError"
              /\ ReadsAltair(v) =>
                    /\ ~PLOTLY_AVAILABLE
                    /\ ALTAIR_AVAILABLE # "unbound"
                    /\ AltairReadAfterPlotly(v)

\* without Plotly a slide's chart went through the dispatch and the display,
\* each of which read ALTAIR_AVAILABLE, and was shown as an Altair chart
C24_Witness ==
    /\ variant = "real" /\ pc = "done" /\ LoopLeft
    /\ \E i \in 1..Len(page.rendered) :
          /\ page.rendered[i].reads =
                <<"PLOTLY_AVAILABLE", "ALTAIR_AVAILABLE", "PLOTLY_AVAILABLE", "ALTAIR_AVAILABLE">>
          /\ "st.altair_chart" \in page.rendered[i].shown

\* with neither library the welcome screen read ALTAIR_AVAILABLE and drew the
\* sample with st.line_chart
C24_WitnessWelcome ==
    /\ variant = "real" /\ pc = "done" /\ "welcome" \in reached
    /\ ReadsAltair(page.sample) /\ ALTAIR_AVAILABLE = "False"
    /\ "st.line_chart" \in page.sample.shown

\* with Plotly the welcome screen drew the sample without reading ALTAIR_AVAILABLE
C24_WitnessWelcomePlotly ==
    /\ variant = "real" /\ pc = "done" /\ "welcome" \in reached
    /\ ALTAIR_AVAILABLE = "unbound" /\ ~ReadsAltair(page.sample)
    /\ "st.plotly_chart" \in page.sample.shown

----------------------------------------------------------------------------
(* the progress bar and the summary *)

\* fraction a is less than fraction b (denominators are positive)
FracLess(a, b) == a.num * b.den < b.num * a.den

\* C25: generation never divides by zero and its progress is well-formed. In
\* both variants, for any stored selection, the empty one included, every
\* progress value (i+1)/len(topics) is computed without error, lies in (0,1],
\* is greater than the one before it and is 1 exactly for the last topic; the
\* loop reports one value per topic (none for the empty selection); the
\* average-confidence summary is 0 when there are no slides; and in
\* real_cortex_app.py a run started by a Generate click has a non-empty stored
\* selection, the button being disabled while no topic is selected.
C25_ProgressWellFormed ==
    /\ \A k \in 1..Len(progress) :
          /\ progress[k].ok
          /\ LET v == progress[k].val
             IN  /\ 0 < v.num /\ v.num <= v.den
                 /\ (v.num = v.den) <=> (k = Len(StoredTopics))
                 /\ k > 1 => progress[k - 1].ok /\ FracLess(progress[k - 1].val, v)
    /\ Len(progress) <= Len(StoredTopics)
    /\ (Generating /\ LoopLeft) => Len(progress) = Len(StoredTopics)
    /\ ("summary" \in reached /\ deck = <<>>) => page.avg_confidence.num = 0
    /\ (variant = "real" /\ trigger = "generate") => StoredTopics # <<>>

\* the loop of app.py has gone over two stored topics, reporting 1/2 and then 2/2
C25_Witness ==
    /\ variant = "app" /\ LoopLeft
    /\ Len(StoredTopics) = 2
    /\ progress = <<Ok([num |-> 1, den |-> 2]), Ok([num |-> 2, den |-> 2])>>

\* the same in real_cortex_app.py, in a run started by a Generate click
C25_WitnessReal ==
    /\ variant = "real" /\ LoopLeft /\ trigger = "generate"
    /\ progress = <<Ok([num |-> 1, den |-> 2]), Ok([num |-> 2, den |-> 2])>>

\* a run over the empty stored selection has ended with no progress value, no
\* slide and an average confidence of 0 in the summary
C25_WitnessEmpty ==
    /\ variant = "real" /\ pc = "done" /\ "summary" \in reached
    /\ StoredTopics = <<>> /\ progress = <<>> /\ deck = <<>>
    /\ page.avg_confidence.num = 0

\* the same in app.py, which has no summary
C25_WitnessEmptyApp ==
    /\ variant = "app" /\ pc = "done" /\ LoopLeft
    /\ StoredTopics = <<>> /\ progress = <<>> /\ deck = <<>>

----------------------------------------------------------------------------
(* the Include SQL and Show metadata options *)

StoredIncludeSql == Get(session_state, "include_sql", TRUE)
StoredIncludeMetadata == Get(session_state, "include_metadata", TRUE)

\* what the page shows for the i-th slide of the deck
SqlExpanderShown(i) ==
    i <= Len(page.rendered) /\ "Generated SQL Query" \in page.rendered[i].expanders
MetadataExpanderShown(i) ==
    i <= Len(page.rendered) /\ "Analysis Metadata" \in page.rendered[i].expanders
BadgeShown(i) ==
    i <= Len(page.rendered) /\ page.rendered[i].badge # <<>>

\* the i-th slide is shown as the stored options have it
ShownAsStored(i) ==
    /\ SqlExpanderShown(i) <=> (StoredIncludeSql /\ deck[i].sql # <<>>)
    /\ BadgeShown(i) <=> StoredIncludeMetadata
    /\ MetadataExpanderShown(i) <=> StoredIncludeMetadata

\* every slide of an exported deck carries its sql and its metadata
ExportCarriesSqlAndMetadata ==
    Exported =>
        LET slides == json_loads(page.json.val)
        IN  /\ Len(slides) = Len(deck)
            /\ \A i \in 1..Len(slides) : {"sql", "metadata"} \subseteq DOMAIN slides[i]

\* the deck and the export of this run are those of the run before it whenever
\* that run was for the same selection, whatever the options of either run
SameAsRunBefore ==
    (prev_deck # <<>> /\ [i \in 1..Len(prev_deck) |-> prev_deck[i].title] = StoredTopics) =>
        /\ deck = prev_deck
        /\ page.json = prev_json

\* C26: the include-SQL and include-metadata toggles affect display only: once
\* a run that generates has ended, each slide of the deck has its SQL expander
\* shown exactly when the stored include_sql is true and its sql is non-empty,
\* and its confidence badge and metadata expander shown exactly when the stored
\* include_metadata is true; and the slide list and the exported JSON, which
\* carries sql and metadata for every slide, are the same as in the run before
\* for the same selection, whatever the toggles were then and are now.
C26_TogglesDisplayOnly ==
    (variant = "real" /\ RunEnded /\ Generating /\ LoopLeft) =>
        /\ \A i \in 1..Len(deck) : ShownAsStored(i)
        /\ ExportCarriesSqlAndMetadata
        /\ SameAsRunBefore

\* the same for the slides the display loop got to: those before the first
\* slide whose chart raised, and that slide itself
C26_DisplayedSlidesFollowToggles ==
    (variant = "real" /\ RunEnded /\ Generating /\ LoopLeft) =>
        /\ \A i \in 1..Len(page.rendered) : ShownAsStored(i)
        /\ ExportCarriesSqlAndMetadata
        /\ SameAsRunBefore

\* a run started by a Generate click with both options unticked has rebuilt
\* the deck and the export of the run before it and shows neither badge nor
\* expander
C26_ReachedBothOff ==
    /\ variant = "real" /\ pc = "done" /\ trigger = "generate"
    /\ ~StoredIncludeSql /\ ~StoredIncludeMetadata
    /\ deck # <<>> /\ deck = prev_deck /\ Exported /\ page.json = prev_json
    /\ \A i \in 1..Len(deck) :
          ~SqlExpanderShown(i) /\ ~BadgeShown(i) /\ ~MetadataExpanderShown(i)

\* with Include SQL ticked, a slide without sql is shown without the SQL
\* expander beside its badge
C26_ReachedNoSql ==
    /\ variant = "real" /\ pc = "done" /\ StoredIncludeSql
    /\ \E i \in 1..Len(deck) :
          deck[i].sql = <<>> /\ ~SqlExpanderShown(i) /\ BadgeShown(i)

====
